---------------------------- MODULE Spec2Model ----------------------------
(***************************************************************************)
(* Model of src/pair.js: the GET / pairing handler of the router, its      *)
(* connection.update callbacks (open / close), its session timeout timer   *)
(* and the session directory on disk.                                      *)
(*                                                                         *)
(* One "attempt" is one invocation of the async handler of lines 45-162.   *)
(* Every `await` of the source is a scheduling point: the code between two *)
(* awaits is one atomic action, and the callbacks of all attempts          *)
(* interleave on the single event loop.                                    *)
(*                                                                         *)
(* External collaborators are modelled by their outcomes:                  *)
(*  - fs.rm (line 22) either removes the directory or fails; the failure   *)
(*    is caught and logged by cleanupSession and the directory stays;      *)
(*  - useMultiFileAuthState / makeWASocket (lines 56-68) either return or  *)
(*    throw; the creds they return are the ones of creds.json when that    *)
(*    file exists and fresh, unregistered ones otherwise;                  *)
(*  - requestPairingCode and sendMessage resolve or reject;                *)
(*  - a socket emits connection=open at most once and connection=close at  *)
(*    most once, at any time after it was made; a closed socket does not   *)
(*    open any more;                                                       *)
(*  - router.get('/', req, res) (line 137) is Express's route              *)
(*    registration: it is handed two non-function handlers and throws.     *)
(***************************************************************************)
EXTENDS Naturals, Sequences, FiniteSets

\* ------------------------------------------------------------------ bounds
MaxRmFailures == 2

\* ------------------------------------------------------- program constants
SESSION_TIMEOUT == 300000
RECONNECT_INTERVAL == 5000
Unauthorized == 401

\* The requests the model follows: two handler invocations, enough for two
\* attempts to overlap on one session directory or on two.
Attempts == {1, 2}

\* Raw `number` query values: missing, a local number, an international one.
NoNumber == << >>
LocalNumber == <<"0", "8", "1">>
IntlNumber == <<"+", "4", "4", "-", "7">>
Numbers == {NoNumber, LocalNumber, IntlNumber}

\* Session directories are keyed by the raw number (line 53).
Dirs == Numbers \ {NoNumber}
NoDir == <<"none">>

Digits == {"0", "1", "2", "3", "4", "5", "6", "7", "8", "9"}

\* Disconnect status codes carried by a close event (0: no code at all).
StatusCodes == {0, Unauthorized, 428}

\* What a session directory holds.
\*   absent: no directory;  empty: directory without creds.json;
\*   unreg / reg: creds.json with registered = false / true.
StorageStates == {"absent", "empty", "unreg", "reg"}

VARIABLES
    storage,      \* [Dirs -> StorageStates]: the session directories on disk
    rmFailures,   \* number of fs.rm failures so far (bounded by MaxRmFailures)
    alive,        \* FALSE once process.exit ran
    exitCode,     \* the code given to process.exit, 2 while alive
    pc,           \* position of the handler body of each attempt
    number,       \* the handler's local `number`
    sessionDir,   \* the handler's local `sessionDir` (its raw-number key)
    sock,         \* TRUE once makeWASocket returned
    registered,   \* sock.authState.creds.registered
    pairingRequested, \* requestPairingCode was called
    handlers,     \* creds.update / connection.update handlers are registered
    timer,        \* the setTimeout callback: none, armed, cleanup, done
    openPc,       \* position of the connection=open callback
    closePc,      \* position of the connection=close callback
    sessionData,  \* what fs.readFile(credsPath) returned
    resp,         \* responses written on `res`, in order
    sent          \* messages sent with sock.sendMessage, in order

vars == <<storage, rmFailures, alive, exitCode, pc, number, sessionDir, sock,
          registered, pairingRequested, handlers, timer, openPc, closePc,
          sessionData, resp, sent>>

\* ------------------------------------------------------------ pure helpers

RECURSIVE KeepDigitsAndPlus(_)
\* num.replace(/[^\d+]/g, '')
KeepDigitsAndPlus(s) ==
    IF s = << >> THEN << >>
    ELSE IF Head(s) \in Digits \cup {"+"}
         THEN <<Head(s)>> \o KeepDigitsAndPlus(Tail(s))
         ELSE KeepDigitsAndPlus(Tail(s))

\* formatted.startsWith('+') ? formatted.substring(1) : formatted
StripLeadingPlus(s) ==
    IF s # << >> /\ Head(s) = "+" THEN Tail(s) ELSE s

\* formatted.match(/^[1-9]\d{1,2}/)
HasCountryCode(s) ==
    /\ Len(s) >= 2
    /\ s[1] \in Digits \ {"0"}
    /\ s[2] \in Digits

formatPhoneNumber(num) ==
    LET formatted == StripLeadingPlus(KeepDigitsAndPlus(num))
    IN  IF HasCountryCode(formatted) THEN formatted
        ELSE <<"6", "2">> \o formatted

RECURSIVE JidUser(_)
\* jidNormalizedUser(`${number}@s.whatsapp.net`): the user part of the jid
\* ends at the first ':' (device) or '_' (agent) separator.
JidUser(s) ==
    IF s = << >> \/ Head(s) \in {":", "_"} THEN << >>
    ELSE <<Head(s)>> \o JidUser(Tail(s))

\* The possible results of fs.rm(dir, {recursive, force}) inside
\* cleanupSession: TRUE = removed (or already absent), FALSE = rm threw and
\* the error was logged.  An absent directory cannot fail (force: true).
RmOutcomes(d) ==
    IF storage[d] = "absent" \/ rmFailures >= MaxRmFailures
    THEN {TRUE} ELSE {TRUE, FALSE}

\* Mutant of cleanupSession: fs.rm is given the parent of the session
\* directories, so that every session directory goes with it.
cleanupSessionAll(d, removed) ==
    /\ storage' = [e \in Dirs |-> IF removed THEN "absent" ELSE storage[e]]
    /\ rmFailures' = IF removed THEN rmFailures ELSE rmFailures + 1

\* cleanupSession(dir): never throws; the directory is gone unless rm failed.
cleanupSession(d, removed) ==
    /\ storage' = [storage EXCEPT ![d] = IF removed THEN "absent" ELSE @]
    /\ rmFailures' = IF removed THEN rmFailures ELSE rmFailures + 1

\* res.headersSent
headersSent(i) == resp[i] # << >>

\* res.json / res.status(..).json
Respond(i, r) == resp' = [resp EXCEPT ![i] = Append(@, r)]

\* ------------------------------------------------------------------- Init

Init ==
    /\ storage \in [Dirs -> StorageStates]
    /\ rmFailures = 0
    /\ alive = TRUE
    /\ exitCode = 2
    /\ pc = [i \in Attempts |-> "idle"]
    /\ number = [i \in Attempts |-> NoNumber]
    /\ sessionDir = [i \in Attempts |-> NoDir]
    /\ sock = [i \in Attempts |-> FALSE]
    /\ registered = [i \in Attempts |-> FALSE]
    /\ pairingRequested = [i \in Attempts |-> FALSE]
    /\ handlers = [i \in Attempts |-> FALSE]
    /\ timer = [i \in Attempts |-> "none"]
    /\ openPc = [i \in Attempts |-> "none"]
    /\ closePc = [i \in Attempts |-> "none"]
    /\ sessionData = [i \in Attempts |-> "none"]
    /\ resp = [i \in Attempts |-> << >>]
    /\ sent = [i \in Attempts |-> << >>]

\* ------------------------------------------------- the GET / handler body

\* Mutant of Request: the test of line 49 is missing, the undefined number
\* makes the body throw and the catch of line 156 answers.
RequestThrowsOnMissing(i, n) ==
    /\ alive
    /\ pc[i] = "idle"
    /\ i > 1 => pc[i - 1] # "idle"
    /\ IF n = NoNumber
       THEN /\ Respond(i, "500init")
            /\ pc' = [pc EXCEPT ![i] = "returned"]
            /\ UNCHANGED <<number, sessionDir>>
       ELSE /\ number' = [number EXCEPT ![i] = n]
            /\ sessionDir' = [sessionDir EXCEPT ![i] = n]
            /\ pc' = [pc EXCEPT ![i] = "cleanup54"]
            /\ UNCHANGED resp
    /\ UNCHANGED <<storage, rmFailures, alive, exitCode, sock, registered,
                   pairingRequested, handlers, timer, openPc, closePc,
                   sessionData, sent>>

\* Lines 45-54: read the query, reject a missing number, derive sessionDir
\* and start cleanupSession.  Attempts are numbered in arrival order.
Request(i, n) ==
    /\ alive
    /\ pc[i] = "idle"
    /\ i > 1 => pc[i - 1] # "idle"
    /\ IF n = NoNumber
       THEN /\ Respond(i, "400")
            /\ pc' = [pc EXCEPT ![i] = "returned"]
            /\ UNCHANGED <<number, sessionDir>>
       ELSE /\ number' = [number EXCEPT ![i] = n]
            /\ sessionDir' = [sessionDir EXCEPT ![i] = n]
            /\ pc' = [pc EXCEPT ![i] = "cleanup54"]
            /\ UNCHANGED resp
    /\ UNCHANGED <<storage, rmFailures, alive, exitCode, sock, registered,
                   pairingRequested, handlers, timer, openPc, closePc,
                   sessionData, sent>>

\* Mutant of Prepare: the cleanupSession of line 54 is missing.
PrepareSkipsCleanup(i) ==
    /\ alive
    /\ pc[i] = "cleanup54"
    /\ pc' = [pc EXCEPT ![i] = "load56"]
    /\ UNCHANGED <<storage, rmFailures, alive, exitCode, number, sessionDir,
                   sock, registered, pairingRequested, handlers, timer,
                   openPc, closePc, sessionData, resp, sent>>

\* Line 54: await cleanupSession(sessionDir).
Prepare(i) ==
    /\ alive
    /\ pc[i] = "cleanup54"
    /\ \E removed \in RmOutcomes(sessionDir[i]) :
           cleanupSession(sessionDir[i], removed)
    /\ pc' = [pc EXCEPT ![i] = "load56"]
    /\ UNCHANGED <<alive, exitCode, number, sessionDir, sock, registered,
                   pairingRequested, handlers, timer, openPc, closePc,
                   sessionData, resp, sent>>

\* Lines 156-161: the catch of the handler body.
InitializationError(i) ==
    /\ IF headersSent(i) THEN UNCHANGED resp ELSE Respond(i, "500init")
    /\ pc' = [pc EXCEPT ![i] = "returned"]

\* Lines 56-68 throwing: useMultiFileAuthState before it made the directory
\* (mkdirDone = FALSE) or makeWASocket after it (mkdirDone = TRUE).
OpenFails(i, mkdirDone) ==
    /\ alive
    /\ pc[i] = "load56"
    /\ storage' = [storage EXCEPT ![sessionDir[i]] =
                      IF mkdirDone /\ @ = "absent" THEN "empty" ELSE @]
    /\ InitializationError(i)
    /\ UNCHANGED <<rmFailures, alive, exitCode, number, sessionDir, sock,
                   registered, pairingRequested, handlers, timer, openPc,
                   closePc, sessionData, sent>>

\* state.creds.registered as loaded by useMultiFileAuthState: the creds of
\* creds.json when the file is there, initAuthCreds() (unregistered) if not.
LoadedRegistered(d) == storage[d] = "reg"

\* Mutant of NeedsPairing: the registration test of line 71 is dropped.
NeedsPairingAlways(reg) == TRUE

\* Line 71: the pairing branch is taken when the creds are not registered.
NeedsPairing(reg) == ~reg

\* Mutant of OpenClient: the timer of line 146 is armed before the pairing
\* branch, so that it also runs for an unregistered attempt.
OpenClientArmsTimer(i) ==
    /\ alive
    /\ pc[i] = "load56"
    /\ LET d == sessionDir[i]
           reg == storage[d] = "reg"
       IN  /\ storage' = [storage EXCEPT ![d] =
                             IF @ = "absent" THEN "empty" ELSE @]
           /\ sock' = [sock EXCEPT ![i] = TRUE]
           /\ registered' = [registered EXCEPT ![i] = reg]
           /\ timer' = [timer EXCEPT ![i] = "armed"]
           /\ IF NeedsPairing(reg)
              THEN /\ pc' = [pc EXCEPT ![i] = "delay2000"]
                   /\ UNCHANGED handlers
              ELSE /\ pc' = [pc EXCEPT ![i] = "returned"]
                   /\ handlers' = [handlers EXCEPT ![i] = TRUE]
    /\ UNCHANGED <<rmFailures, alive, exitCode, number, sessionDir,
                   pairingRequested, openPc, closePc, sessionData, resp,
                   sent>>

\* Lines 56-71 and, when registered, 90-154: load the auth state, make the
\* socket, then either enter the pairing branch (await delay(2000)) or
\* register the handlers, arm the timer and return.
OpenClient(i) ==
    /\ alive
    /\ pc[i] = "load56"
    /\ LET d == sessionDir[i]
           reg == LoadedRegistered(d)
       IN  /\ storage' = [storage EXCEPT ![d] =
                             IF @ = "absent" THEN "empty" ELSE @]
           /\ sock' = [sock EXCEPT ![i] = TRUE]
           /\ registered' = [registered EXCEPT ![i] = reg]
           /\ IF NeedsPairing(reg)
              THEN /\ pc' = [pc EXCEPT ![i] = "delay2000"]
                   /\ UNCHANGED <<handlers, timer>>
              ELSE /\ pc' = [pc EXCEPT ![i] = "returned"]
                   /\ handlers' = [handlers EXCEPT ![i] = TRUE]
                   /\ timer' = [timer EXCEPT ![i] = "armed"]
    /\ UNCHANGED <<rmFailures, alive, exitCode, number, sessionDir,
                   pairingRequested, openPc, closePc, sessionData, resp, sent>>

\* Lines 72-76: after the grace delay, normalise the number and call
\* sock.requestPairingCode(number).
RequestPairingCode(i) ==
    /\ alive
    /\ pc[i] = "delay2000"
    /\ number' = [number EXCEPT ![i] = formatPhoneNumber(@)]
    /\ pairingRequested' = [pairingRequested EXCEPT ![i] = TRUE]
    /\ pc' = [pc EXCEPT ![i] = "awaitCode"]
    /\ UNCHANGED <<storage, rmFailures, alive, exitCode, sessionDir, sock,
                   registered, handlers, timer, openPc, closePc, sessionData, resp, sent>>

\* Lines 76-81: the pairing code arrived; answer and return.
PairingCode(i) ==
    /\ alive
    /\ pc[i] = "awaitCode"
    /\ Respond(i, "code")
    /\ pc' = [pc EXCEPT ![i] = "returned"]
    /\ UNCHANGED <<storage, rmFailures, alive, exitCode, number, sessionDir,
                   sock, registered, pairingRequested, handlers, timer,
                   openPc, closePc, sessionData, sent>>

\* Lines 82-84: requestPairingCode rejected; log, start cleanupSession.
PairingError(i) ==
    /\ alive
    /\ pc[i] = "awaitCode"
    /\ pc' = [pc EXCEPT ![i] = "cleanup84"]
    /\ UNCHANGED <<storage, rmFailures, alive, exitCode, number, sessionDir,
                   sock, registered, pairingRequested, handlers, timer,
                   openPc, closePc, sessionData, resp, sent>>

\* Mutant of PairingFailed: the cleanupSession of line 84 is missing.
PairingFailedNoCleanup(i) ==
    /\ alive
    /\ pc[i] = "cleanup84"
    /\ Respond(i, "500pair")
    /\ pc' = [pc EXCEPT ![i] = "returned"]
    /\ UNCHANGED <<storage, rmFailures, alive, exitCode, number, sessionDir,
                   sock, registered, pairingRequested, handlers, timer,
                   openPc, closePc, sessionData, sent>>

\* Lines 84-85: cleanupSession finished; answer 500 and return.
PairingFailed(i) ==
    /\ alive
    /\ pc[i] = "cleanup84"
    /\ \E removed \in RmOutcomes(sessionDir[i]) :
           cleanupSession(sessionDir[i], removed)
    /\ Respond(i, "500pair")
    /\ pc' = [pc EXCEPT ![i] = "returned"]
    /\ UNCHANGED <<alive, exitCode, number, sessionDir, sock, registered,
                   pairingRequested, handlers, timer, openPc, closePc,
                   sessionData, sent>>

\* ------------------------------------------------ the registered callbacks

\* Line 90: saveCreds on creds.update writes creds.json into the session
\* directory; the write fails (and changes nothing) when the directory is
\* gone.
SaveCreds(i) ==
    /\ alive
    /\ handlers[i]
    /\ storage' = [storage EXCEPT ![sessionDir[i]] =
                      IF @ = "absent" THEN @
                      ELSE IF registered[i] THEN "reg" ELSE "unreg"]
    /\ UNCHANGED <<rmFailures, alive, exitCode, pc, number, sessionDir, sock,
                   registered, pairingRequested, handlers, timer, openPc,
                   closePc, sessionData, resp, sent>>

\* Line 99: the recipient of both messages.
userJid(i) == JidUser(number[i])

\* Lines 92-103: the socket reports connection=open.  With the callback of
\* line 92 registered it builds userJid and credsPath and starts the settle
\* delay; on a socket whose handler returned from the pairing branch nothing
\* listens and the event is lost.
ConnectionOpen(i) ==
    /\ alive
    /\ sock[i]
    /\ openPc[i] = "none"
    /\ closePc[i] = "none"
    /\ openPc' = [openPc EXCEPT ![i] =
                     IF handlers[i] THEN "delay5000" ELSE "nolistener"]
    /\ UNCHANGED <<storage, rmFailures, alive, exitCode, pc, number,
                   sessionDir, sock, registered, pairingRequested, handlers,
                   timer, closePc, sessionData, resp, sent>>

\* Line 106: fs.readFile(credsPath) after the delay; it throws when
\* creds.json is not there.
ReadCreds(i) ==
    /\ alive
    /\ openPc[i] = "delay5000"
    /\ IF storage[sessionDir[i]] \in {"unreg", "reg"}
       THEN /\ sessionData' = [sessionData EXCEPT ![i] = storage[sessionDir[i]]]
            /\ openPc' = [openPc EXCEPT ![i] = "sendDocument"]
       ELSE /\ openPc' = [openPc EXCEPT ![i] = "cleanup128"]
            /\ UNCHANGED sessionData
    /\ UNCHANGED <<storage, rmFailures, alive, exitCode, pc, number,
                   sessionDir, sock, registered, pairingRequested, handlers,
                   timer, closePc, resp, sent>>

\* Mutant of TransferSteps: the advisory text is sent before the document.
TransferStepsSwapped ==
    [sendDocument |-> [kind |-> "text",     next |-> "sendText"],
     sendText     |-> [kind |-> "document", next |-> "delay1000"]]

\* The two messages of the transfer, in source order, and where each leads.
TransferSteps ==
    [sendDocument |-> [kind |-> "document", next |-> "sendText"],
     sendText     |-> [kind |-> "text",     next |-> "delay1000"]]

\* Lines 107-119: one sock.sendMessage(userJid, ...); it resolves (the
\* message is sent) or rejects (the catch of line 126 takes over).
SendMessage(i, ok) ==
    /\ alive
    /\ openPc[i] \in DOMAIN TransferSteps
    /\ LET step == TransferSteps[openPc[i]]
       IN  IF ok
           THEN /\ sent' = [sent EXCEPT ![i] =
                               Append(@, [to |-> userJid(i),
                                          kind |-> step.kind,
                                          data |-> IF step.kind = "document"
                                                   THEN sessionData[i]
                                                   ELSE "advisory"])]
                /\ openPc' = [openPc EXCEPT ![i] = step.next]
           ELSE /\ openPc' = [openPc EXCEPT ![i] = "cleanup128"]
                /\ UNCHANGED sent
    /\ UNCHANGED <<storage, rmFailures, alive, exitCode, pc, number,
                   sessionDir, sock, registered, pairingRequested, handlers,
                   timer, closePc, sessionData, resp>>

\* process.exit(code): the whole process, with every attempt in it, stops.
ProcessExit(code) ==
    /\ alive' = FALSE
    /\ exitCode' = code

\* Lines 122-124: delay(1000), cleanupSession, process.exit(0).
TransferDone(i) ==
    /\ alive
    /\ openPc[i] = "delay1000"
    /\ \E removed \in RmOutcomes(sessionDir[i]) :
           cleanupSession(sessionDir[i], removed)
    /\ ProcessExit(0)
    /\ openPc' = [openPc EXCEPT ![i] = "exited"]
    /\ UNCHANGED <<pc, number, sessionDir, sock, registered,
                   pairingRequested, handlers, timer, closePc, sessionData, resp, sent>>

\* Mutant of TransferFailed: the catch exits without cleanupSession.
TransferFailedNoCleanup(i) ==
    /\ alive
    /\ openPc[i] = "cleanup128"
    /\ ProcessExit(1)
    /\ openPc' = [openPc EXCEPT ![i] = "exited"]
    /\ UNCHANGED <<storage, rmFailures, pc, number, sessionDir, sock,
                   registered, pairingRequested, handlers, timer, closePc,
                   sessionData, resp, sent>>

\* Lines 126-129: the catch of the transfer: cleanupSession, process.exit(1).
TransferFailed(i) ==
    /\ alive
    /\ openPc[i] = "cleanup128"
    /\ \E removed \in RmOutcomes(sessionDir[i]) :
           cleanupSession(sessionDir[i], removed)
    /\ ProcessExit(1)
    /\ openPc' = [openPc EXCEPT ![i] = "exited"]
    /\ UNCHANGED <<pc, number, sessionDir, sock, registered,
                   pairingRequested, handlers, timer, closePc, sessionData, resp, sent>>

\* Line 134: lastDisconnect?.error?.output?.statusCode !== 401
ShouldReconnect(code) == code # Unauthorized

\* Lines 92-94, 133-140: the socket reports connection=close.  With the
\* callback registered it either starts the reconnect delay or starts
\* cleanupSession; with no callback the event is lost.
ConnectionClose(i, code) ==
    /\ alive
    /\ sock[i]
    /\ closePc[i] = "none"
    /\ closePc' = [closePc EXCEPT ![i] =
                      IF handlers[i]
                      THEN IF ShouldReconnect(code) THEN "delay136"
                           ELSE "cleanup140"
                      ELSE IF code = Unauthorized THEN "nolistener401"
                           ELSE "nolistener"]
    /\ UNCHANGED <<storage, rmFailures, alive, exitCode, pc, number,
                   sessionDir, sock, registered, pairingRequested, handlers,
                   timer, openPc, sessionData, resp, sent>>

\* Line 137: router.get('/', req, res) after the delay.  Router.get(path,
\* ...handlers) registers handlers for the path; req and res are not
\* functions, so the call throws and the callback's promise rejects (logged
\* by the unhandledRejection listener of line 182).  Nothing runs the
\* handler body again.
Reinitiate(i) ==
    /\ alive
    /\ closePc[i] = "delay136"
    /\ closePc' = [closePc EXCEPT ![i] = "rejected"]
    /\ UNCHANGED <<storage, rmFailures, alive, exitCode, pc, number,
                   sessionDir, sock, registered, pairingRequested, handlers,
                   timer, openPc, sessionData, resp, sent>>

\* Lines 139-140: authentication failed; cleanupSession.
AuthenticationFailed(i) ==
    /\ alive
    /\ closePc[i] = "cleanup140"
    /\ \E removed \in RmOutcomes(sessionDir[i]) :
           cleanupSession(sessionDir[i], removed)
    /\ closePc' = [closePc EXCEPT ![i] = "returned"]
    /\ UNCHANGED <<alive, exitCode, pc, number, sessionDir, sock, registered,
                   pairingRequested, handlers, timer, openPc, sessionData, resp, sent>>

\* Line 147: the timer callback acts only when the creds are not registered.
TimedOut(reg) == ~reg

\* Lines 146-154: the setTimeout callback.  At "armed" it fires and tests
\* registered; at "cleanup149" its cleanupSession finished and it answers
\* 408 unless a response was already sent.
SessionTimeout(i) ==
    /\ alive
    /\ timer[i] \in {"armed", "cleanup149"}
    /\ IF timer[i] = "armed"
       THEN /\ timer' = [timer EXCEPT ![i] =
                            IF TimedOut(registered[i]) THEN "cleanup149"
                            ELSE "done"]
            /\ UNCHANGED <<storage, rmFailures, resp>>
       ELSE /\ \E removed \in RmOutcomes(sessionDir[i]) :
                   cleanupSession(sessionDir[i], removed)
            /\ IF headersSent(i) THEN UNCHANGED resp ELSE Respond(i, "408")
            /\ timer' = [timer EXCEPT ![i] = "done"]
    /\ UNCHANGED <<alive, exitCode, pc, number, sessionDir, sock, registered,
                   pairingRequested, handlers, openPc, closePc, sessionData, sent>>

\* ------------------------------------------------------------------- Next

\* Every step attempt i can take: its handler body, its callbacks, and the
\* events and results its collaborators hand it.
AttemptStep(i) ==
    \/ \E n \in Numbers : Request(i, n)
    \/ Prepare(i)
    \/ \E mkdirDone \in BOOLEAN : OpenFails(i, mkdirDone)
    \/ OpenClient(i)
    \/ RequestPairingCode(i)
    \/ PairingCode(i)
    \/ PairingError(i)
    \/ PairingFailed(i)
    \/ SaveCreds(i)
    \/ ConnectionOpen(i)
    \/ ReadCreds(i)
    \/ \E ok \in BOOLEAN : SendMessage(i, ok)
    \/ TransferDone(i)
    \/ TransferFailed(i)
    \/ \E code \in StatusCodes : ConnectionClose(i, code)
    \/ Reinitiate(i)
    \/ AuthenticationFailed(i)
    \/ SessionTimeout(i)

Next == \E i \in Attempts : AttemptStep(i)

Spec == Init /\ [][Next]_vars

\* ------------------------------------------------------------ properties

\* The lifecycle states of an attempt, read off the handler's position.
AwaitingPairing(i) == pc[i] \in {"delay2000", "awaitCode"}

ClosedSuccess(i) == openPc[i] = "exited" /\ exitCode = 0

ClosedFailure(i) ==
    \/ pc[i] = "returned" /\ resp[i] \in {<<"500pair">>, <<"500init">>}
    \/ closePc[i] = "returned"
    \/ openPc[i] = "exited" /\ exitCode = 1
    \/ timer[i] = "done" /\ ~registered[i]

Closed(i) == ClosedSuccess(i) \/ ClosedFailure(i)

\* registered was true when the attempt left INITIALIZING (the creds of a
\* socket are never unregistered afterwards).
RegisteredAtExit(i) == sock[i] /\ registered[i]

\* The messages a complete transfer of attempt i sends, in order.
ExpectedTransfer(i) ==
    << [to |-> userJid(i), kind |-> "document", data |-> sessionData[i]],
       [to |-> userJid(i), kind |-> "text",     data |-> "advisory"] >>

IsPrefix(s, t) == Len(s) <= Len(t) /\ \A k \in 1..Len(s) : s[k] = t[k]

\* cleanupSession ran on d in this step: d is gone, or fs.rm failed.
CleanupRan(d) == storage'[d] = "absent" \/ rmFailures' = rmFailures + 1

\* C1: for every attempt the response channel is written at most once, over
\* every interleaving of pairing-code success and failure, initialization
\* error, timeout firing and close-event handling.
C1_AtMostOneResponse == \A i \in Attempts : Len(resp[i]) <= 1

\* C1 witness: one attempt was answered with its pairing code while another
\* had its timeout fire and its non-401 close event run to the end.
C1_Witness ==
    \E i, j \in Attempts :
        /\ resp[i] = <<"code">>
        /\ timer[j] = "done"
        /\ closePc[j] = "rejected"

\* C2: every attempt that ends (CLOSED, success or failure) has given the
\* caller exactly one response, registered attempts included.
C2_EveryAttemptAnswered ==
    \A i \in Attempts : Closed(i) => Len(resp[i]) = 1

\* C3: after the pairing code was returned the attempt still listens: a
\* connection=open event starts the credential transfer.
C3_OpenAfterCodeTransfers ==
    [][\A i \in Attempts :
          (resp[i] = <<"code">> /\ openPc[i] = "none" /\ openPc'[i] # "none")
          => openPc'[i] = "delay5000"]_vars

C5_UnauthorizedCloseDiscards ==
    [][\A i \in Attempts :
          /\ (closePc[i] = "none"
                /\ closePc'[i] \in {"cleanup140", "nolistener401"})
             => closePc'[i] = "cleanup140"
          /\ (closePc[i] = "cleanup140" /\ closePc'[i] = "returned")
             => storage'[sessionDir[i]] = "absent"
          /\ closePc[i] \in {"cleanup140", "returned", "nolistener401"}
             => closePc'[i] # "delay136"]_vars

\* C6: a connection=close event with a status other than 401 on an attempt
\* that is not registered starts the backoff, and when the backoff ends the
\* handler body runs again from the preparation of the storage.
C6_TransientCloseReinitializes ==
    [][\A i \in Attempts :
          (sock[i] /\ ~registered[i]) =>
              /\ (closePc[i] = "none"
                    /\ closePc'[i] \in {"delay136", "nolistener"})
                 => closePc'[i] = "delay136"
              /\ (closePc[i] = "delay136" /\ closePc'[i] # "delay136")
                 => pc'[i] = "cleanup54"]_vars

\* C7: the timeout guard is armed when an attempt enters INITIALIZING, so
\* that an unregistered attempt with an open client always has a timer that
\* is armed, running or done.
C7_TimeoutArmedForEveryAttempt ==
    \A i \in Attempts : (sock[i] /\ ~registered[i]) => timer[i] # "none"

\* C8 as stated: when the pairing-code request was rejected, the step that
\* answers leaves the storage absent and 500 as the only response.
C8_PairingFailureRemovesStorage ==
    [][\A i \in Attempts :
          (pc[i] = "cleanup84" /\ pc'[i] = "returned") =>
              /\ storage'[sessionDir[i]] = "absent"
              /\ resp'[i] = <<"500pair">>]_vars

\* C8 amended: when the pairing-code request was rejected, cleanupSession
\* runs on the storage (it is gone unless fs.rm failed), 500 "Failed to
\* generate pairing code" is the attempt's only response, and the attempt
\* is over: no handler, no timer.
C8_PairingFailureCleansUp ==
    [][\A i \in Attempts :
          (pc[i] = "cleanup84" /\ pc'[i] = "returned") =>
              /\ CleanupRan(sessionDir[i])
              /\ resp'[i] = <<"500pair">>
              /\ ~handlers'[i]
              /\ timer'[i] = "none"]_vars

\* C8 witness: a rejected pairing request was answered with 500 and the
\* storage is gone.
C8_Witness ==
    \E i \in Attempts :
        /\ pairingRequested[i]
        /\ resp[i] = <<"500pair">>
        /\ storage[sessionDir[i]] = "absent"

\* C9: the transfer runs in a fixed order: the messages sent are a prefix
\* of (document with the credentials read, advisory text), both to the
\* user's address; a message is sent only after creds.json was read while
\* it existed; and the cleanup that ends in CLOSED(success) runs only after
\* both were sent.
C9_TransferOrder ==
    \A i \in Attempts :
        /\ IsPrefix(sent[i], ExpectedTransfer(i))
        /\ sent[i] # << >> => sessionData[i] \in {"unreg", "reg"}
        /\ openPc[i] \in {"sendDocument", "sendText", "delay1000"}
           => sessionData[i] \in {"unreg", "reg"}
        /\ openPc[i] = "sendDocument" => sent[i] = << >>
        /\ openPc[i] = "sendText" => Len(sent[i]) = 1
        /\ openPc[i] = "delay1000" => Len(sent[i]) = 2
        /\ ClosedSuccess(i) => sent[i] = ExpectedTransfer(i)

\* C9 witness: a transfer that sent both messages, removed the storage and
\* exited with code 0.
C9_Witness ==
    \E i \in Attempts :
        /\ ClosedSuccess(i)
        /\ Len(sent[i]) = 2
        /\ storage[sessionDir[i]] = "absent"

\* C10 as stated: when the read or a send of the transfer failed, the step
\* that ends the transfer leaves the storage absent.
C10_TransferFailureRemovesStorage ==
    [][\A i \in Attempts :
          (openPc[i] = "cleanup128" /\ openPc'[i] = "exited") =>
              storage'[sessionDir[i]] = "absent"]_vars

\* C10 amended: when the read or a send of the transfer failed,
\* cleanupSession runs on the storage (it is gone unless fs.rm failed), the
\* process exits with code 1 and nothing is written to the caller.
C10_TransferFailureCleansUp ==
    [][\A i \in Attempts :
          (openPc[i] = "cleanup128" /\ openPc'[i] = "exited") =>
              /\ CleanupRan(sessionDir[i])
              /\ ~alive'
              /\ exitCode' = 1
              /\ resp'[i] = << >>]_vars

\* C10 witness: a transfer failed after the document was sent, the storage
\* is gone and the process exited with code 1.
C10_Witness ==
    \E i \in Attempts :
        /\ openPc[i] = "exited"
        /\ exitCode = 1
        /\ Len(sent[i]) = 1
        /\ storage[sessionDir[i]] = "absent"
        /\ resp[i] = << >>

\* The attempt was given a number and has not ended.
Started(i) == pc[i] # "idle" /\ sessionDir[i] # NoDir

\* C11: a request without a number is answered at once with the validation
\* error and changes nothing else: no storage is removed or created, no
\* client is opened, no timer is armed, no handler is registered; and
\* nothing of that attempt runs afterwards.
C11_ValidationHasNoSideEffects ==
    [][\A i \in Attempts :
          /\ (pc[i] = "idle" /\ pc'[i] # "idle" /\ sessionDir'[i] = NoDir)
             => /\ resp'[i] = <<"400">>
                /\ pc'[i] = "returned"
                /\ storage' = storage
                /\ rmFailures' = rmFailures
                /\ ~sock'[i] /\ ~handlers'[i] /\ timer'[i] = "none"
          /\ (pc[i] = "returned" /\ sessionDir[i] = NoDir)
             => /\ resp'[i] = resp[i]
                /\ pc'[i] = pc[i]
                /\ ~sock'[i] /\ ~handlers'[i] /\ timer'[i] = "none"
                /\ openPc'[i] = "none" /\ closePc'[i] = "none"]_vars

\* C11 witness: a request without a number was answered 400 while a stored
\* session of another number is still on disk.
C11_Witness ==
    \E i \in Attempts :
        /\ resp[i] = <<"400">>
        /\ pc[i] = "returned"
        /\ ~sock[i] /\ ~handlers[i] /\ timer[i] = "none"
        /\ storage[LocalNumber] = "reg"

\* C12: whenever an attempt is terminal, by whatever path, the session
\* directory of its number does not exist (stated for the runs in which no
\* removal failed and no other request was made).
C12_TerminalMeansNoStorage ==
    \A i \in Attempts :
        (/\ Started(i)
         /\ Closed(i)
         /\ rmFailures = 0
         /\ \A j \in Attempts \ {i} : pc[j] = "idle")
        => storage[sessionDir[i]] = "absent"

\* C13: reconnection is bounded, so every attempt ends: an attempt that can
\* take no further step, while the process lives, is in a terminal state.
C13_EveryAttemptTerminates ==
    \A i \in Attempts :
        (Started(i) /\ alive /\ ~ENABLED AttemptStep(i)) => Closed(i)

\* The attempt is live: started, not ended, in a living process.
Live(i) == Started(i) /\ alive /\ ~Closed(i)

\* This step is a callback of attempt i reading creds.json.
CallbackReads(i) == openPc[i] = "delay5000" /\ openPc'[i] # "delay5000"

\* This step is a callback of attempt i finishing a cleanupSession.
CallbackCleans(i) ==
    \/ openPc[i] \in {"delay1000", "cleanup128"} /\ openPc'[i] = "exited"
    \/ closePc[i] = "cleanup140" /\ closePc'[i] = "returned"
    \/ timer[i] = "cleanup149" /\ timer'[i] = "done"

\* This step is attempt i finishing a cleanupSession, anywhere.
CleanupStep(i) ==
    \/ pc[i] = "cleanup54" /\ pc'[i] = "load56"
    \/ pc[i] = "cleanup84" /\ pc'[i] = "returned"
    \/ CallbackCleans(i)

\* C14: the storage of an identity belongs to one live attempt: no two
\* attempts for the same identity are live together, and no callback of an
\* earlier attempt reads or removes the storage once a later attempt for
\* the same identity has opened its client on it.
C14_ExclusiveStorage ==
    /\ [](\A i, j \in Attempts :
             (i # j /\ Live(i) /\ Live(j)) => sessionDir[i] # sessionDir[j])
    /\ [][\A i, j \in Attempts :
             (i < j /\ sessionDir[i] = sessionDir[j] /\ sock[j])
             => ~(CallbackReads(i) \/ CallbackCleans(i))]_vars

C17_ClosedIsTerminal ==
    [][\A i \in Attempts :
          Closed(i) =>
              /\ resp'[i] = resp[i]
              /\ sent'[i] = sent[i]
              /\ pc'[i] = pc[i]
              /\ ~CallbackReads(i)
              /\ ~CleanupStep(i)]_vars

\* C18: creds.json is read only while it exists and the creds are
\* registered: no 401 close and no timeout of the attempt, falling into the
\* settle delay, puts the read after the discard (stated for the runs with
\* no other request).
C18_ReadOnlyExistingCreds ==
    [][\A i \in Attempts :
          (CallbackReads(i) /\ \A j \in Attempts \ {i} : pc[j] = "idle")
          => /\ storage[sessionDir[i]] \in {"unreg", "reg"}
             /\ registered[i]]_vars

\* The normalised form of the number attempt i was asked for.
NormalizedNumber(i) == formatPhoneNumber(sessionDir[i])

\* C19: on every path into the transfer the number was normalised before
\* the recipient was built, and every message goes to the normalised
\* number.
C19_MessagesToNormalizedNumber ==
    \A i \in Attempts :
        /\ openPc[i] \notin {"none", "nolistener"}
           => number[i] = NormalizedNumber(i)
        /\ \A k \in 1..Len(sent[i]) :
               sent[i][k].to = JidUser(NormalizedNumber(i))

\* The handler body of the attempt is between two of its awaits.
InFlight(i) ==
    pc[i] \in {"cleanup54", "load56", "delay2000", "awaitCode", "cleanup84"}

\* C20: the end of one attempt's transfer, good or bad, does not change
\* the course of an attempt for another identity: none is left stopped in
\* the middle of its handler.
C20_OtherIdentitiesUnaffected ==
    \A i, j \in Attempts :
        (/\ i # j
         /\ openPc[i] = "exited"
         /\ Started(j)
         /\ sessionDir[j] # sessionDir[i])
        => ~InFlight(j)

=============================================================================
